---- MODULE Spec2Model ----
(***************************************************************************)
(* A model of the Open-Catalyst-Dataset sampler (ocdata/adsorptions.py and *)
(* ocdata/combined.py).                                                    *)
(*                                                                         *)
(* Units.  Probabilities are integers in hundredths (0.65 is 65).          *)
(* Distances and Cartesian coordinates are integers in milli-Angstrom,     *)
(* covalent radii are in picometre as in COVALENT_RADIUS, fractional       *)
(* coordinates are in hundredths of a cell vector and surface shifts are   *)
(* in 1e-4.  Python strings are TLA+ strings, tuples and lists are         *)
(* sequences, None is the value of the same type named No... below.        *)
(***************************************************************************)
EXTENDS Integers, Sequences, FiniteSets, TLC

(***************************************************************************)
(* Bounds of the model.                                                    *)
(***************************************************************************)
MaxKey == 2          \* keys of n_cat_elems_weights are drawn from 1..MaxKey
MaxBulks == 1        \* rows of the bulk inverted index per number of elements
MaxSurfaces == 2     \* entries of a precomputed surface enumeration file
MaxConfigs == 2      \* configurations catkit's Builder proposes
MaxAdsAtoms == 2     \* adsorbate atoms of an adslab given to is_config_reasonable

(***************************************************************************)
(* Python built-ins used by the code.                                      *)
(***************************************************************************)
Abs(x) == IF x < 0 THEN -x ELSE x

Max2(a, b) == IF a >= b THEN a ELSE b

Digit(d) == SubSeq("0123456789", d + 1, d + 1)

RECURSIVE str(_)
str(n) == IF n < 0 THEN "-" \o str(-n)
          ELSE IF n < 10 THEN Digit(n)
          ELSE str(n \div 10) \o Digit(n % 10)

\* round(x, ndigits) on a decimal held as an integer number of `unit`s, where
\* one unit of the result is `step` units of x: round half to even.
RoundTo(x, step) ==
    LET q == x \div step
        r == x % step
    IN  IF 2 * r < step THEN q * step
        ELSE IF 2 * r > step THEN (q + 1) * step
        ELSE IF q % 2 = 0 THEN q * step ELSE (q + 1) * step

RECURSIVE SumOver(_, _)
SumOver(f, S) == IF S = {} THEN 0
                 ELSE LET k == CHOOSE k \in S : TRUE
                      IN  f[k] + SumOver(f, S \ {k})

\* sum(weights), weights = list(n_cat_elems_weights.values())
sum(d) == SumOver(d, DOMAIN d)

One == 100                 \* the probability 1 in hundredths
RelTolInv == 1000000000    \* 1 / rel_tol of math.isclose (rel_tol = 1e-09)

\* math.isclose(a, b): abs(a-b) <= max(rel_tol * max(abs(a), abs(b)), abs_tol)
\* with abs_tol = 0.  On integers, d <= m / RelTolInv iff d <= m \div RelTolInv.
isclose(a, b) == Abs(a - b) <= Max2(Abs(a), Abs(b)) \div RelTolInv

(***************************************************************************)
(* Exceptions.                                                             *)
(***************************************************************************)
NoException == [type |-> "None", msg |-> ""]

Exception(t, m) == [type |-> t, msg |-> m]

\* np.random.choice(0): numpy refuses an empty population
EmptyChoiceError == Exception("ValueError", "a must be greater than 0 unless no samples are taken")

ProbSumError == Exception("ValueError", "probabilities do not sum to 1")

AssertionError == Exception("AssertionError", "")

\* format % args with fewer conversion specifiers than arguments
FormatError == Exception("TypeError", "not all arguments converted during string formatting")

(***************************************************************************)
(* is_config_reasonable (adsorptions.py 655-692, combined.py 112-149).     *)
(* An adslab is [atoms, nn, dist]: atoms is the sequence of its atoms      *)
(* [tag, elem, frac, position]; nn[i] is the list of site indices          *)
(* VoronoiNN.get_nn_info reports for atom i; dist[i][j] is                 *)
(* adslab.get_distance(i, j, mic=True).  Atoms are numbered from 1.        *)
(***************************************************************************)
FracOne == 100             \* the fractional coordinate 1 in hundredths

\* COVALENT_RADIUS of ocdata.constants (picometre), for the elements used here
COVALENT_RADIUS(elem) ==
    CASE elem = "H" -> 31
      [] elem = "C" -> 76
      [] elem = "O" -> 66
      [] elem = "Cu" -> 132

\* adsorbate_indices = [atom.index for atom in adslab if atom.tag == 2]
AdsorbateIndices(adslab) ==
    SelectSeq([i \in 1..Len(adslab.atoms) |-> i], LAMBDA i : adslab.atoms[i].tag = 2)

\* np.any((coord < 0) | (coord > 1))
OutsideCell(coord) == \E k \in 1..3 : coord[k] < 0 \/ coord[k] > FracOne

\* cov_bond_thres = 0.8 * (COVALENT_RADIUS[ads_elem] + COVALENT_RADIUS[nn_elem])/100
\* in Angstrom; in milli-Angstrom that is 8 * (r1 + r2).
CovBondThres(ads_elem, nn_elem) ==
    (8 * (COVALENT_RADIUS(ads_elem) + COVALENT_RADIUS(nn_elem)) * 1000) \div (10 * 100)

\* faulty variant: a distance equal to the threshold is rejected too
TooCloseOrTouching(actual_dist, cov_bond_thres) == actual_dist <= cov_bond_thres

\* if actual_dist < cov_bond_thres: return False
TooClose(actual_dist, cov_bond_thres) == actual_dist < cov_bond_thres

\* slab_nn = [nn for nn in nearneighbors if nn['site_index'] not in adsorbate_indices]
SlabNN(adslab, idx) ==
    LET ads == AdsorbateIndices(adslab)
    IN  SelectSeq(adslab.nn[idx], LAMBDA j : \A k \in 1..Len(ads) : ads[k] # j)

\* for nn in slab_nn: ... return False        (FALSE here is "returned False")
RECURSIVE NeighboursFarEnough(_, _, _, _)
NeighboursFarEnough(adslab, idx, slab_nn, k) ==
    IF k > Len(slab_nn) THEN TRUE
    ELSE IF TooClose(adslab.dist[idx][slab_nn[k]],
                     CovBondThres(adslab.atoms[idx].elem, adslab.atoms[slab_nn[k]].elem))
         THEN FALSE
         ELSE NeighboursFarEnough(adslab, idx, slab_nn, k + 1)

\* for idx in adsorbate_indices: ...
RECURSIVE CheckAdsorbateAtoms(_, _, _)
CheckAdsorbateAtoms(adslab, ads, k) ==
    IF k > Len(ads) THEN TRUE
    ELSE IF OutsideCell(adslab.atoms[ads[k]].frac) THEN FALSE
    ELSE IF ~NeighboursFarEnough(adslab, ads[k], SlabNN(adslab, ads[k]), 1) THEN FALSE
    ELSE CheckAdsorbateAtoms(adslab, ads, k + 1)

is_config_reasonable(adslab) == CheckAdsorbateAtoms(adslab, AdsorbateIndices(adslab), 1)


(***************************************************************************)
(* The data the sampler reads.                                             *)
(***************************************************************************)
\* n_cat_elems_weights: None, or a dict from numbers of elements to weights
DefaultWeights == (1 :> 5) @@ (2 :> 65) @@ (3 :> 30)

WeightValues == {0, 50, 100}

WeightInputs ==
    {[none |-> TRUE, dict |-> << >>]} \cup
    {[none |-> FALSE, dict |-> d] :
        d \in UNION {[K -> WeightValues] : K \in SUBSET (1..MaxKey)}}

\* the bulk inverted index: number of elements -> list of
\* (bulk, mpid, sampling_string, index_in_flattened_array)
bulk_database == "bulks.pkl"

DbKeys == 1..3

BulkRow(n, i, total) ==
    [mpid |-> "mp-" \o str(10 * n + i),
     sampling_string |-> str(i - 1) \o "/" \o str(total),
     index_in_flattened_array |-> 10 * n + i]

BulkDatabases ==
    UNION {{[n \in K |-> [i \in 1..c[n] |-> BulkRow(n, i, c[n])]] :
               c \in [K -> 0..MaxBulks]} : K \in SUBSET DbKeys}

\* a slab after tile_atoms and tag_surface_atoms: bulk atoms tagged 0 below
\* one surface atom tagged 1
SlabAtoms(n) ==
    [i \in 1..n |->
        [tag |-> IF i = n THEN 1 ELSE 0, elem |-> "Cu",
         frac |-> <<50, 50, 10 * i>>, position |-> <<1278, 1278, 2087 * i>>]]

Shifts == <<1234, 625, 2467>>

\* entry k of a precomputed enumeration: (surface_struct, millers, shift, top)
SurfaceInfo(k) ==
    [atoms |-> SlabAtoms(2 + (k % 2)),
     millers |-> <<1 + (k % 2), k % 2, (k \div 2) % 2>>,
     shift |-> Shifts[((k - 1) % Len(Shifts)) + 1],
     top |-> k % 2 = 1]

\* the adsorbate inverted index: index -> (atoms, smiles, bond_indices)
AdsorbateDb ==
    << [atoms |-> <<"H">>, smiles |-> "*H", bond_indices |-> <<0>>],
       [atoms |-> <<"C", "C">>, smiles |-> "*C*C", bond_indices |-> <<0, 1>>] >>

(***************************************************************************)
(* catkit's Builder.add_adsorbate: the adslab with the adsorbate placed at *)
(* a site.  Which sites the Builder proposes is its own business; the      *)
(* model lets it propose any list of these four kinds.                     *)
(***************************************************************************)
SiteKinds == {"ontop", "edge", "buried", "outside"}

\* the distance at which an atom of this element touches the threshold to Cu
TouchingCu(elem) == CASE elem = "H" -> 1304 [] elem = "C" -> 1664 [] elem = "O" -> 1584

PlacedAtom(elem, k, nslab, kind) ==
    [tag |-> 2, elem |-> elem,
     frac |-> CASE kind = "ontop" -> <<50, 50, 40 + k>>
                [] kind = "edge" -> <<0, 100, 40 + k>>
                [] kind = "buried" -> <<50, 50, 10 * nslab + k>>
                [] kind = "outside" -> <<50, 101, 40 + k>>,
     position |-> CASE kind = "ontop" -> <<1278, 1278, 2087 * nslab + 2000 + 1204 * k>>
                    [] kind = "edge" -> <<0, 2556, 2087 * nslab + TouchingCu(elem) + 1204 * k>>
                    [] kind = "buried" -> <<1278, 1278, 2087 * nslab + 1000 + 1204 * k>>
                    [] kind = "outside" -> <<1278, 2581, 2087 * nslab + 2000 + 1204 * k>>]

PlacedDist(elem, kind) ==
    CASE kind = "ontop" -> 2000
      [] kind = "edge" -> TouchingCu(elem)
      [] kind = "buried" -> 1000
      [] kind = "outside" -> 2000

Adslab(slab, ads, kind) ==
    LET n == Len(slab)
        m == Len(ads)
        atoms == slab \o [k \in 1..m |-> PlacedAtom(ads[k], k - 1, n, kind)]
    IN  [atoms |-> atoms,
         \* each adsorbate atom neighbours the surface atom and the other adsorbate atoms
         nn |-> [i \in 1..(n + m) |->
                    IF i <= n THEN << >>
                    ELSE <<n>> \o SelectSeq([j \in 1..m |-> n + j], LAMBDA j : j # i)],
         dist |-> [i \in 1..(n + m) |-> [j \in 1..(n + m) |->
                    IF i = j THEN 0
                    ELSE IF i > n /\ j > n THEN 1204
                    ELSE IF i > n THEN PlacedDist(atoms[i].elem, kind)
                    ELSE IF j > n THEN PlacedDist(atoms[j].elem, kind)
                    ELSE 2556]]]

SeqsUpTo(S, n) == UNION {[1..k -> S] : k \in 0..n}

NoAdslab == [atoms |-> << >>, nn |-> << >>, dist |-> << >>]

VARIABLES
    entry,                  \* the function or class the caller uses
    pc,                     \* the statement to run next
    stages,                 \* the calls sample_structures has made, in order
    raised,                 \* the exception that left sample_structures
    n_cat_elems_weights,    \* argument of sample_structures
    n_elems, elem_sampling_str,
    inv_index,              \* the bulk database choose_bulk_pkl loaded
    bulk,                   \* mpid, index_of_bulk_atoms, bulk_sampling_str
    surface,                \* atoms, millers, shift, top, surface_sampling_str
    adsorbate,              \* atoms, smiles, bond_indices, adsorbate_sampling_str
    adsorbed_surfaces,      \* what builder.add_adsorbate proposed
    adsorbed_surface,       \* the chosen adslab
    adsorbed_surface_sampling_str,
    constrained,            \* the FixAtoms masks of the two constrained copies
    sites,
    result,                 \* the tuple of records returned, <<>> before return
    checked_adslab, config_reasonable,   \* argument and return value of is_config_reasonable
    bulk_symmetry, max_miller, millers_left, all_slabs_info   \* enumerate_surfaces

configVars == <<checked_adslab, config_reasonable>>

enumVars == <<bulk_symmetry, max_miller, millers_left, all_slabs_info>>

vars == <<entry, configVars, enumVars, pc, stages, raised, n_cat_elems_weights, n_elems, elem_sampling_str,
          inv_index, bulk, surface, adsorbate, adsorbed_surfaces,
          adsorbed_surface, adsorbed_surface_sampling_str, constrained,
          sites, result>>

(***************************************************************************)
(* sample_structures (adsorptions.py 31-82), one action per statement.     *)
(***************************************************************************)
NoBulk == [mpid |-> "", index_of_bulk_atoms |-> 0, bulk_sampling_str |-> ""]

NoSurface == [atoms |-> << >>, millers |-> << >>, shift |-> 0, top |-> FALSE,
              surface_sampling_str |-> "", index_surfaces_info |-> 0]

NoAdsorbate == [atoms |-> << >>, smiles |-> "", bond_indices |-> << >>,
                adsorbate_sampling_str |-> ""]

NoConstraints == [adsorbed_surface |-> << >>, surface |-> << >>]

\* faulty variant: the adsorbate is chosen before the surface
StageAfterSwapped(stage) ==
    CASE stage = "choose_n_elems" -> "choose_bulk_pkl"
      [] stage = "choose_bulk_pkl" -> "choose_adsorbate_pkl"
      [] stage = "choose_adsorbate_pkl" -> "choose_surface_pkl"
      [] stage = "choose_surface_pkl" -> "add_adsorbate_onto_surface"
      [] stage = "add_adsorbate_onto_surface" -> "constrain_surface"
      [] stage = "constrain_surface" -> "find_sites"
      [] stage = "find_sites" -> "return"
      [] stage = "return" -> "done"

\* the order of the statements of sample_structures
StageAfter(stage) ==
    CASE stage = "choose_n_elems" -> "choose_bulk_pkl"
      [] stage = "choose_bulk_pkl" -> "choose_surface_pkl"
      [] stage = "choose_surface_pkl" -> "choose_adsorbate_pkl"
      [] stage = "choose_adsorbate_pkl" -> "add_adsorbate_onto_surface"
      [] stage = "add_adsorbate_onto_surface" -> "constrain_surface"
      [] stage = "constrain_surface" -> "find_sites"
      [] stage = "find_sites" -> "return"
      [] stage = "return" -> "done"

\* the statement at pc completes
Advance == /\ pc' = StageAfter(pc)
           /\ stages' = Append(stages, pc)
           /\ raised' = raised

\* the statement at pc raises and nothing catches it
Raise(exc) == /\ pc' = "raised"
              /\ stages' = Append(stages, pc)
              /\ raised' = exc

\* faulty variant: the assertion is compiled away
WeightsNotAsserted(weights) == TRUE

\* assert math.isclose(sum(weights), 1)
WeightsAsserted(weights) == isclose(sum(weights), One)

NpAtolInv == 67108864     \* 1 / sqrt(eps): numpy's tolerance on sum(p) = 1

\* what np.random.choice(a, p=p) raises, if anything
NpChoiceError(a, p) ==
    IF a = {} THEN EmptyChoiceError
    ELSE IF Abs(sum(p) - One) > One \div NpAtolInv THEN ProbSumError
    ELSE NoException

\* faulty variant: np.random.choice(n_elems), the weights not passed
NElemsChoicesUnweighted(weights) == DOMAIN weights

\* what np.random.choice(n_elems, p=weights) can return
NElemsChoices(weights) == {n \in DOMAIN weights : weights[n] > 0}

\* choose_n_elems (85-107)
ChooseNElems ==
    /\ pc = "choose_n_elems"
    /\ LET weights == IF n_cat_elems_weights.none THEN DefaultWeights
                      ELSE n_cat_elems_weights.dict
       IN  IF ~WeightsAsserted(weights)
           THEN Raise(AssertionError) /\ UNCHANGED <<n_elems, elem_sampling_str>>
           ELSE IF NpChoiceError(DOMAIN weights, weights) # NoException
           THEN /\ Raise(NpChoiceError(DOMAIN weights, weights))
                /\ UNCHANGED <<n_elems, elem_sampling_str>>
           ELSE \E n_elem \in NElemsChoices(weights) :
                   /\ n_elems' = n_elem
                   /\ elem_sampling_str' =
                          str(n_elem) \o "/" \o str(Cardinality(DOMAIN weights))
                   /\ Advance
    /\ UNCHANGED <<entry, configVars, enumVars>>
    /\ UNCHANGED <<n_cat_elems_weights, inv_index, bulk, surface, adsorbate,
                   adsorbed_surfaces, adsorbed_surface,
                   adsorbed_surface_sampling_str, constrained, sites, result>>

\* 'Randomly chose to look for a %i-component material, but no such materials
\* exist in %s. ...' % (n_elems, n_elems, bulk_database): the format converts
\* two arguments and is given three.
NoSuchMaterialMsg(n, database) ==
    "Randomly chose to look for a " \o str(n) \o "-component material, but no such materials exist in "
    \o database \o ". Please add one to the database or change the weights to exclude this number of components."

NoSuchMaterialError(args) ==
    IF Len(args) # 2 THEN FormatError
    ELSE Exception("ValueError", NoSuchMaterialMsg(args[1], args[2]))

\* try: ... except IndexError: raise ValueError(...)    (130-143)
ChooseBulkHandler(exc, n, database) ==
    IF exc.type = "IndexError" THEN NoSuchMaterialError(<<n, n, database>>)
    ELSE exc

\* choose_bulk_pkl (110-143)
ChooseBulk ==
    /\ pc = "choose_bulk_pkl"
    /\ \E db \in BulkDatabases :
          /\ inv_index' = db
          /\ IF n_elems \notin DOMAIN db
             THEN Raise(AssertionError) /\ bulk' = bulk
             ELSE LET total_elements_for_key == Len(db[n_elems])
                  IN  IF total_elements_for_key = 0
                      THEN /\ Raise(ChooseBulkHandler(EmptyChoiceError, n_elems, bulk_database))
                           /\ bulk' = bulk
                      ELSE \E row_bulk_index \in 0..(total_elements_for_key - 1) :
                              LET row == db[n_elems][row_bulk_index + 1]
                              IN  /\ bulk' = [mpid |-> row.mpid,
                                              index_of_bulk_atoms |-> row.index_in_flattened_array,
                                              bulk_sampling_str |-> row.sampling_string]
                                  /\ Advance
    /\ UNCHANGED <<entry, configVars, enumVars>>
    /\ UNCHANGED <<n_cat_elems_weights, n_elems, elem_sampling_str, surface,
                   adsorbate, adsorbed_surfaces, adsorbed_surface,
                   adsorbed_surface_sampling_str, constrained, sites, result>>

\* choose_surface_pkl (182-211); the frame of choose_bulk_pkl is gone
ChooseSurface ==
    /\ pc = "choose_surface_pkl"
    /\ inv_index' = << >>
    /\ \E total_surfaces_possible \in 0..MaxSurfaces :
          IF total_surfaces_possible = 0
          THEN Raise(EmptyChoiceError) /\ surface' = surface
          ELSE \E index_surfaces_info \in 0..(total_surfaces_possible - 1) :
                  LET info == SurfaceInfo(index_surfaces_info + 1)
                  IN  /\ surface' =
                            [atoms |-> info.atoms, millers |-> info.millers,
                             shift |-> info.shift, top |-> info.top,
                             surface_sampling_str |->
                                 str(index_surfaces_info) \o "/" \o str(total_surfaces_possible),
                             index_surfaces_info |-> index_surfaces_info]
                      /\ Advance
    /\ UNCHANGED <<entry, configVars, enumVars>>
    /\ UNCHANGED <<n_cat_elems_weights, n_elems, elem_sampling_str, bulk,
                   adsorbate, adsorbed_surfaces, adsorbed_surface,
                   adsorbed_surface_sampling_str, constrained, sites, result>>

\* choose_adsorbate_pkl (525-544)
ChooseAdsorbate ==
    /\ pc = "choose_adsorbate_pkl"
    /\ \E element \in 0..(Len(AdsorbateDb) - 1) :
          /\ adsorbate' =
                [atoms |-> AdsorbateDb[element + 1].atoms,
                 smiles |-> AdsorbateDb[element + 1].smiles,
                 bond_indices |-> AdsorbateDb[element + 1].bond_indices,
                 adsorbate_sampling_str |-> str(element) \o "/" \o str(Len(AdsorbateDb))]
          /\ Advance
    /\ UNCHANGED <<entry, configVars, enumVars>>
    /\ UNCHANGED <<n_cat_elems_weights, n_elems, elem_sampling_str, inv_index,
                   bulk, surface, adsorbed_surfaces, adsorbed_surface,
                   adsorbed_surface_sampling_str, constrained, sites, result>>

\* faulty variant: every candidate is kept, the filter is skipped
UnfilteredAdsorbedSurfaces(configs) == configs

\* reasonable_adsorbed_surfaces = [surface for surface in adsorbed_surfaces
\*                                 if is_config_reasonable(surface) is True]
ReasonableAdsorbedSurfaces(configs) ==
    SelectSeq(configs, LAMBDA config : is_config_reasonable(config))

\* str(reasonable_adsorbed_surface_index) + "/" + str(len(reasonable_adsorbed_surfaces))
AdsorbedSurfaceSamplingString(index, reasonable) ==
    str(index) \o "/" \o str(Len(reasonable))

\* add_adsorbate_onto_surface (571-616)
AddAdsorbateOntoSurface ==
    /\ pc = "add_adsorbate_onto_surface"
    /\ \E kinds \in SeqsUpTo(SiteKinds, MaxConfigs) :
          LET configs == [k \in 1..Len(kinds) |->
                             Adslab(surface.atoms, adsorbate.atoms, kinds[k])]
              reasonable == ReasonableAdsorbedSurfaces(configs)
          IN  /\ adsorbed_surfaces' = configs
              /\ IF Len(reasonable) = 0
                 THEN /\ Raise(EmptyChoiceError)
                      /\ UNCHANGED <<adsorbed_surface, adsorbed_surface_sampling_str>>
                 ELSE \E index \in 0..(Len(reasonable) - 1) :
                         /\ adsorbed_surface' = reasonable[index + 1]
                         /\ adsorbed_surface_sampling_str' =
                                AdsorbedSurfaceSamplingString(index, reasonable)
                         /\ Advance
    /\ UNCHANGED <<entry, configVars, enumVars>>
    /\ UNCHANGED <<n_cat_elems_weights, n_elems, elem_sampling_str, inv_index,
                   bulk, surface, adsorbate, constrained, sites, result>>

\* constrain_surface (695-719): mask = [True if atom.tag == 0 else False ...]
FixAtomsMask(atoms) == [i \in 1..Len(atoms) |-> atoms[i].tag = 0]

\* lines 64-65; the frame of add_adsorbate_onto_surface is gone
ConstrainSurfaces ==
    /\ pc = "constrain_surface"
    /\ adsorbed_surfaces' = << >>
    /\ constrained' = [adsorbed_surface |-> FixAtomsMask(adsorbed_surface.atoms),
                       surface |-> FixAtomsMask(surface.atoms)]
    /\ Advance
    /\ UNCHANGED <<entry, configVars, enumVars>>
    /\ UNCHANGED <<n_cat_elems_weights, n_elems, elem_sampling_str, inv_index,
                   bulk, surface, adsorbate, adsorbed_surface,
                   adsorbed_surface_sampling_str, sites, result>>

\* find_sites (722-743): positions = tuple(round(coord, 2) for coord in atom.position)
find_sites(surface_atoms, adsorbed_atoms, bond_indices) ==
    [k \in 1..Len(bond_indices) |->
        LET binding_atom_index == Len(surface_atoms) + bond_indices[k]
            atom == adsorbed_atoms[binding_atom_index + 1]
        IN  [c \in 1..3 |-> RoundTo(atom.position[c], 10)]]

\* faulty variant: the shift is hashed as read
RoundShiftDropped(shift) == shift

\* shift = round(shift, 3)
RoundShift(shift) == RoundTo(shift, 10)

\* lines 68-69
FindSites ==
    /\ pc = "find_sites"
    /\ surface' = [surface EXCEPT !.shift = RoundShift(@)]
    /\ sites' = find_sites(surface.atoms, adsorbed_surface.atoms, adsorbate.bond_indices)
    /\ Advance
    /\ UNCHANGED <<entry, configVars, enumVars>>
    /\ UNCHANGED <<n_cat_elems_weights, n_elems, elem_sampling_str, inv_index,
                   bulk, adsorbate, adsorbed_surfaces, adsorbed_surface,
                   adsorbed_surface_sampling_str, constrained, result>>

\* lines 71-72
AdsSamplingStr == adsorbate.adsorbate_sampling_str \o "_" \o adsorbed_surface_sampling_str

\* faulty variant: the bulk string comes before the element-count string
BulkSamplingStrSwapped ==
    bulk.bulk_sampling_str \o "_" \o elem_sampling_str \o "_" \o surface.surface_sampling_str

BulkSamplingStr ==
    elem_sampling_str \o "_" \o bulk.bulk_sampling_str \o "_" \o surface.surface_sampling_str

\* lines 74-76
AdsorbedBulkDict ==
    [adsorbed_bulk_atomsobject |-> [atoms |-> adsorbed_surface.atoms,
                                    constraints |-> constrained.adsorbed_surface],
     adsorbed_bulk_metadata |-> <<bulk.mpid, surface.millers, surface.shift,
                                  surface.top, adsorbate.smiles, sites>>,
     adsorbed_bulk_samplingstr |-> BulkSamplingStr \o "_" \o AdsSamplingStr]

\* lines 78-80
BulkDict ==
    [bulk_atomsobject |-> [atoms |-> surface.atoms, constraints |-> constrained.surface],
     bulk_metadata |-> <<bulk.mpid, surface.millers, surface.shift, surface.top>>,
     bulk_samplingstr |-> BulkSamplingStr]

\* lines 71-82
Return ==
    /\ pc = "return"
    /\ result' = <<AdsorbedBulkDict, BulkDict>>
    /\ Advance
    /\ UNCHANGED <<entry, configVars, enumVars>>
    /\ UNCHANGED <<n_cat_elems_weights, n_elems, elem_sampling_str, inv_index,
                   bulk, surface, adsorbate, adsorbed_surfaces, adsorbed_surface,
                   adsorbed_surface_sampling_str, constrained, sites>>

(***************************************************************************)
(* class Combined (combined.py).  The Adsorbate and Surface objects it is  *)
(* given hold what the choose_* functions return: self.adsorbate is the    *)
(* variable adsorbate; self.surface is the variables surface, bulk,        *)
(* elem_sampling_str and constrained.surface.                              *)
(***************************************************************************)
\* Combined.__init__ (19-29), with Combined.add_adsorbate_onto_surface (32-76)
\* and Combined.find_sites (151-172)
CombinedInit ==
    /\ pc = "Combined.__init__"
    /\ \E kinds \in SeqsUpTo(SiteKinds, MaxConfigs) :
          LET configs == [k \in 1..Len(kinds) |->
                             Adslab(surface.atoms, adsorbate.atoms, kinds[k])]
              reasonable_adsorbed_surfaces == ReasonableAdsorbedSurfaces(configs)
          IN  /\ adsorbed_surfaces' = configs
              /\ IF Len(reasonable_adsorbed_surfaces) = 0
                 THEN /\ pc' = "raised"
                      /\ raised' = EmptyChoiceError
                      /\ UNCHANGED <<adsorbed_surface, adsorbed_surface_sampling_str,
                                     constrained, sites>>
                 ELSE \E index \in 0..(Len(reasonable_adsorbed_surfaces) - 1) :
                         /\ adsorbed_surface' = reasonable_adsorbed_surfaces[index + 1]
                         /\ adsorbed_surface_sampling_str' =
                                AdsorbedSurfaceSamplingString(index, reasonable_adsorbed_surfaces)
                         /\ constrained' =
                                [constrained EXCEPT !.adsorbed_surface =
                                    FixAtomsMask(adsorbed_surface'.atoms)]
                         /\ sites' = find_sites(surface.atoms, adsorbed_surface'.atoms,
                                                adsorbate.bond_indices)
                         /\ pc' = "Combined.get_adsorbed_bulk_dict"
                         /\ raised' = raised
    /\ stages' = Append(stages, pc)
    /\ UNCHANGED <<entry, configVars, enumVars>>
    /\ UNCHANGED <<n_cat_elems_weights, n_elems, elem_sampling_str, inv_index,
                   bulk, surface, adsorbate, result>>

\* Combined.get_adsorbed_bulk_dict (174-186)
CombinedAdsorbedBulkDict ==
    [adsorbed_bulk_atomsobject |-> [atoms |-> adsorbed_surface.atoms,
                                    constraints |-> constrained.adsorbed_surface],
     adsorbed_bulk_metadata |-> <<bulk.mpid, surface.millers, RoundShift(surface.shift),
                                  surface.top, adsorbate.smiles, sites>>,
     adsorbed_bulk_samplingstr |-> BulkSamplingStr \o "_" \o AdsSamplingStr]

CombinedGetAdsorbedBulkDict ==
    /\ pc = "Combined.get_adsorbed_bulk_dict"
    /\ adsorbed_surfaces' = << >>
    /\ result' = <<CombinedAdsorbedBulkDict>>
    /\ pc' = "done"
    /\ stages' = Append(stages, pc)
    /\ UNCHANGED <<entry, configVars, enumVars>>
    /\ UNCHANGED <<raised, n_cat_elems_weights, n_elems, elem_sampling_str, inv_index,
                   bulk, surface, adsorbate, adsorbed_surface,
                   adsorbed_surface_sampling_str, constrained, sites>>

\* the objects a caller can give Combined(adsorbate, surface)
AdsorbateObjects ==
    {[atoms |-> AdsorbateDb[e].atoms, smiles |-> AdsorbateDb[e].smiles,
      bond_indices |-> AdsorbateDb[e].bond_indices,
      adsorbate_sampling_str |-> str(e - 1) \o "/" \o str(Len(AdsorbateDb))] :
        e \in 1..Len(AdsorbateDb)}

SurfaceObjects ==
    {[atoms |-> SurfaceInfo(k).atoms, millers |-> SurfaceInfo(k).millers,
      shift |-> SurfaceInfo(k).shift, top |-> SurfaceInfo(k).top,
      surface_sampling_str |-> str(k - 1) \o "/" \o str(MaxSurfaces),
      index_surfaces_info |-> k - 1] : k \in 1..MaxSurfaces}

NoSlabs == << >>

InitSampleStructures ==
    /\ entry = "sample_structures"
    /\ pc = "choose_n_elems"
    /\ n_cat_elems_weights \in WeightInputs
    /\ n_elems = 0
    /\ elem_sampling_str = ""
    /\ bulk = NoBulk
    /\ surface = NoSurface
    /\ adsorbate = NoAdsorbate
    /\ constrained = NoConstraints

InitCombined ==
    /\ entry = "Combined"
    /\ pc = "Combined.__init__"
    /\ n_cat_elems_weights = [none |-> TRUE, dict |-> << >>]
    /\ n_elems \in DOMAIN DefaultWeights
    /\ elem_sampling_str = str(n_elems) \o "/" \o str(Cardinality(DOMAIN DefaultWeights))
    /\ bulk = [mpid |-> BulkRow(n_elems, 1, 1).mpid,
               index_of_bulk_atoms |-> BulkRow(n_elems, 1, 1).index_in_flattened_array,
               bulk_sampling_str |-> BulkRow(n_elems, 1, 1).sampling_string]
    /\ surface \in SurfaceObjects
    /\ adsorbate \in AdsorbateObjects
    /\ constrained = [adsorbed_surface |-> << >>, surface |-> FixAtomsMask(surface.atoms)]

Init ==
    /\ InitSampleStructures \/ InitCombined
    /\ stages = << >>
    /\ raised = NoException
    /\ inv_index = << >>
    /\ adsorbed_surfaces = << >>
    /\ adsorbed_surface = NoAdslab
    /\ adsorbed_surface_sampling_str = ""
    /\ sites = << >>
    /\ result = << >>
    /\ checked_adslab = NoAdslab
    /\ config_reasonable = "None"
    /\ bulk_symmetry = ""
    /\ max_miller = 0
    /\ millers_left = << >>
    /\ all_slabs_info = NoSlabs

Next ==
    \/ ChooseNElems
    \/ ChooseBulk
    \/ ChooseSurface
    \/ ChooseAdsorbate
    \/ AddAdsorbateOntoSurface
    \/ ConstrainSurfaces
    \/ FindSites
    \/ Return
    \/ CombinedInit
    \/ CombinedGetAdsorbedBulkDict

Spec == Init /\ [][Next]_vars

(***************************************************************************)
(* The claims about sample_structures and Combined, checked under Spec.    *)
(***************************************************************************)
\* the weights choose_n_elems works with
EffectiveWeights == IF n_cat_elems_weights.none THEN DefaultWeights
                    ELSE n_cat_elems_weights.dict

\* add_adsorbate_onto_surface has just returned: its candidates are still known
PlacementReturned == pc \in {"constrain_surface", "Combined.get_adsorbed_bulk_dict"}

ReasonableAmong(configs, S) ==
    Cardinality({j \in S : is_config_reasonable(configs[j])})

\* C1: the adsorbed structure add_adsorbate_onto_surface returns (the module
\* function and the Combined method) is a candidate for which
\* is_config_reasonable returned True, and the sampling string is
\* "<index>/<total>": total counts the reasonable candidates and index, with
\* 0 <= index < total, is the position of the returned one among them.
C1_PlacementIsReasonable ==
    PlacementReturned =>
        \E i \in 1..Len(adsorbed_surfaces) :
            LET index == ReasonableAmong(adsorbed_surfaces, 1..(i - 1))
                total == ReasonableAmong(adsorbed_surfaces, 1..Len(adsorbed_surfaces))
            IN  /\ is_config_reasonable(adsorbed_surfaces[i])
                /\ adsorbed_surface = adsorbed_surfaces[i]
                /\ 0 <= index /\ index < total
                /\ adsorbed_surface_sampling_str = ToString(index) \o "/" \o ToString(total)

\* an unreasonable first candidate was filtered out and the second one returned
C1_Witness ==
    /\ pc = "constrain_surface"
    /\ Len(adsorbed_surfaces) = 2
    /\ ~is_config_reasonable(adsorbed_surfaces[1])
    /\ adsorbed_surface = adsorbed_surfaces[2]
    /\ adsorbed_surface_sampling_str = "0/1"

StageOrder == <<"choose_n_elems", "choose_bulk_pkl", "choose_surface_pkl",
                "choose_adsorbate_pkl", "add_adsorbate_onto_surface",
                "constrain_surface", "find_sites", "return">>

\* C3: sample_structures runs its stages in one fixed order, none repeated
\* (number of elements, bulk with that number of elements, surface,
\* adsorbate, placement of that adsorbate on that surface, constraining, site
\* extraction); it returns its two records only after every stage has
\* completed, and returns nothing when a stage raises.
C3_StagesInOrder ==
    entry = "sample_structures" =>
        /\ Len(stages) <= Len(StageOrder)
        /\ stages = SubSeq(StageOrder, 1, Len(stages))
        /\ result # << >> => stages = StageOrder /\ Len(result) = 2 /\ raised = NoException
        /\ raised # NoException => result = << >> /\ pc = "raised"
        /\ pc = "done" => result # << >>
        /\ bulk # NoBulk => bulk.index_of_bulk_atoms \div 10 = n_elems
        /\ adsorbed_surface # NoAdslab =>
              /\ SubSeq(adsorbed_surface.atoms, 1, Len(surface.atoms)) = surface.atoms
              /\ Len(adsorbed_surface.atoms) = Len(surface.atoms) + Len(adsorbate.atoms)
              /\ \A k \in 1..Len(adsorbate.atoms) :
                    adsorbed_surface.atoms[Len(surface.atoms) + k].elem = adsorbate.atoms[k]

C3_Witness ==
    /\ entry = "sample_structures"
    /\ pc = "done"
    /\ stages = StageOrder
    /\ Len(result) = 2

\* a number in 1e-4 is `original` rounded to 3 decimals
IsRoundedTo3(rounded, original) ==
    /\ rounded % 10 = 0
    /\ 2 * (rounded - original) <= 10
    /\ 2 * (original - rounded) <= 10

\* C4: in the two records one call of sample_structures returns, the
\* bare-surface metadata is (mpid, millers, shift, top) and the adsorbed
\* metadata is the same 4-tuple, the shift rounded to 3 decimals, followed by
\* the adsorbate SMILES and the binding-site coordinates; Combined's record
\* holds the same six.
C4_MetadataShareSurfaceHash ==
    pc = "done" =>
        LET adsorbed_meta == result[1].adsorbed_bulk_metadata
            shift_in_file == SurfaceInfo(surface.index_surfaces_info + 1).shift
        IN  /\ Len(adsorbed_meta) = 6
            /\ adsorbed_meta[1] = bulk.mpid
            /\ adsorbed_meta[2] = surface.millers
            /\ IsRoundedTo3(adsorbed_meta[3], shift_in_file)
            /\ adsorbed_meta[4] = surface.top
            /\ adsorbed_meta[5] = adsorbate.smiles
            /\ adsorbed_meta[6] = sites
            /\ Len(sites) = Len(adsorbate.bond_indices)
            /\ entry = "sample_structures" =>
                  /\ Len(result[2].bulk_metadata) = 4
                  /\ result[2].bulk_metadata = SubSeq(adsorbed_meta, 1, 4)

\* a returned pair whose shift had to be rounded, for a bidentate adsorbate
C4_Witness ==
    /\ entry = "sample_structures"
    /\ pc = "done"
    /\ SurfaceInfo(surface.index_surfaces_info + 1).shift = 1234
    /\ result[2].bulk_metadata[3] = 1230
    /\ Len(result[1].adsorbed_bulk_metadata[6]) = 2

IsProperPrefix(a, b) == Len(a) < Len(b) /\ SubSeq(b, 1, Len(a)) = a

\* C5: the provenance strings are composed in a fixed order with "_"
\* separators: bulk_samplingstr = <elements>_<bulk>_<surface> and
\* adsorbed_bulk_samplingstr = bulk_samplingstr_<adsorbate>_<placement>, so
\* the bare-surface string is a proper prefix of the adsorbed one.
C5_SamplingStrings ==
    pc = "done" =>
        LET bulk_str == elem_sampling_str \o "_" \o bulk.bulk_sampling_str
                            \o "_" \o surface.surface_sampling_str
            adsorbed_str == result[1].adsorbed_bulk_samplingstr
        IN  /\ adsorbed_str = bulk_str \o "_" \o adsorbate.adsorbate_sampling_str
                                  \o "_" \o adsorbed_surface_sampling_str
            /\ IsProperPrefix(bulk_str, adsorbed_str)
            /\ entry = "sample_structures" => result[2].bulk_samplingstr = bulk_str

C5_Witness ==
    /\ entry = "sample_structures"
    /\ pc = "done"
    /\ result[2].bulk_samplingstr = "3/3_0/1_1/2"
    /\ result[1].adsorbed_bulk_samplingstr = "3/3_0/1_1/2_1/2_0/1"

\* choose_bulk_pkl has just run on the database inv_index
ChooseBulkReturned == Len(stages) = 2 /\ stages[2] = "choose_bulk_pkl"

NoBulkWithNElems == n_elems \notin DOMAIN inv_index \/ Len(inv_index[n_elems]) = 0

\* C6: choose_bulk_pkl raises ValueError carrying the message 'Randomly chose
\* to look for a N-component material, but no such materials exist in
\* <database> ...' whenever the bulk database holds no bulk with n_elems
\* elements.
C6_NoSuchMaterialRaised ==
    (ChooseBulkReturned /\ NoBulkWithNElems) =>
        raised = Exception("ValueError", NoSuchMaterialMsg(n_elems, bulk_database))

\* choose_n_elems has run
ChooseNElemsReturned == entry = "sample_structures" /\ Len(stages) >= 1

\* C7: choose_n_elems requires the probabilities to sum to 1: when they do
\* not, the assertion fails and no number of elements is chosen or returned.
C7_WeightsMustSumToOne ==
    (ChooseNElemsReturned /\ sum(EffectiveWeights) # One) =>
        /\ raised = AssertionError
        /\ pc = "raised"
        /\ stages = <<"choose_n_elems">>
        /\ n_elems = 0
        /\ elem_sampling_str = ""
        /\ result = << >>

C7_Witness ==
    /\ ChooseNElemsReturned
    /\ ~n_cat_elems_weights.none
    /\ DOMAIN n_cat_elems_weights.dict = {1, 2}
    /\ n_cat_elems_weights.dict[1] = 50 /\ n_cat_elems_weights.dict[2] = 100
    /\ raised = AssertionError

\* C8: when the weights sum to 1, choose_n_elems returns a key of
\* n_cat_elems_weights with non-zero probability (of the default
\* {1: 0.05, 2: 0.65, 3: 0.3} when the argument is None), and the sampling
\* string "<chosen n_elem>/<number of keys>".
C8_NElemsIsWeightedKey ==
    (ChooseNElemsReturned /\ sum(EffectiveWeights) = One) =>
        /\ stages[1] = "choose_n_elems"
        /\ Len(stages) = 1 => raised = NoException
        /\ n_elems \in DOMAIN EffectiveWeights
        /\ EffectiveWeights[n_elems] > 0
        /\ n_cat_elems_weights.none => n_elems \in {1, 2, 3}
        /\ elem_sampling_str = ToString(n_elems) \o "/"
                                   \o ToString(Cardinality(DOMAIN EffectiveWeights))

\* a dict with a zero-probability key: the other key is the one chosen
C8_Witness ==
    /\ ChooseNElemsReturned
    /\ ~n_cat_elems_weights.none
    /\ DOMAIN n_cat_elems_weights.dict = {1, 2}
    /\ n_cat_elems_weights.dict[1] = 0
    /\ n_elems = 2
    /\ elem_sampling_str = "2/2"

(***************************************************************************)
(* is_config_reasonable called on its own, on any small adslab: one slab   *)
(* atom and up to MaxAdsAtoms adsorbate atoms, each adsorbate atom on the  *)
(* cell boundary or just outside it, with or without the slab atom and the *)
(* next adsorbate atom among its Voronoi neighbours, at a distance to the  *)
(* slab atom around the thresholds.                                        *)
(***************************************************************************)
AdsElems == <<"O", "C", "H">>

Fracs == {<<0, 100, 50>>, <<-1, 50, 50>>, <<50, 50, 101>>}

Dists == {1583, 1584, 1664}

AtomChoices == [frac : Fracs, slab_nn : BOOLEAN, ads_nn : BOOLEAN, dist : Dists]

CheckedAdslab(slab_tag, choices) ==
    LET m == Len(choices)
        elem(k) == AdsElems[((k - 1) % Len(AdsElems)) + 1]
    IN  [atoms |-> <<[tag |-> slab_tag, elem |-> "Cu", frac |-> <<50, 50, 10>>,
                      position |-> <<1278, 1278, 2087>>]>>
                   \o [k \in 1..m |->
                         [tag |-> 2, elem |-> elem(k), frac |-> choices[k].frac,
                          position |-> <<1278, 1278, 2087 + choices[k].dist>>]],
         nn |-> [i \in 1..(m + 1) |->
                    IF i = 1 THEN << >>
                    ELSE (IF choices[i - 1].slab_nn THEN <<1>> ELSE << >>)
                         \o (IF choices[i - 1].ads_nn THEN <<2 + ((i - 1) % m)>> ELSE << >>)],
         dist |-> [i \in 1..(m + 1) |-> [j \in 1..(m + 1) |->
                    IF i = j THEN 0
                    ELSE IF j = 1 THEN choices[i - 1].dist
                    ELSE IF i = 1 THEN choices[j - 1].dist
                    ELSE 1204]]]

\* a call of is_config_reasonable (adsorptions.py 655-692, combined.py 112-149)
IsConfigReasonable ==
    /\ pc = "is_config_reasonable"
    /\ config_reasonable' = IF is_config_reasonable(checked_adslab) THEN "True" ELSE "False"
    /\ pc' = "done"
    /\ stages' = Append(stages, pc)
    /\ UNCHANGED <<entry, checked_adslab, enumVars>>
    /\ UNCHANGED <<raised, n_cat_elems_weights, n_elems, elem_sampling_str, inv_index,
                   bulk, surface, adsorbate, adsorbed_surfaces, adsorbed_surface,
                   adsorbed_surface_sampling_str, constrained, sites, result>>

\* the variables of sample_structures and Combined, not in use
SamplerIdle ==
    /\ stages = << >>
    /\ raised = NoException
    /\ n_cat_elems_weights = [none |-> TRUE, dict |-> << >>]
    /\ n_elems = 0
    /\ elem_sampling_str = ""
    /\ inv_index = << >>
    /\ bulk = NoBulk
    /\ surface = NoSurface
    /\ adsorbate = NoAdsorbate
    /\ adsorbed_surfaces = << >>
    /\ adsorbed_surface = NoAdslab
    /\ adsorbed_surface_sampling_str = ""
    /\ constrained = NoConstraints
    /\ sites = << >>
    /\ result = << >>

InitConfig ==
    /\ entry = "is_config_reasonable"
    /\ pc = "is_config_reasonable"
    /\ \E m \in 0..MaxAdsAtoms : \E slab_tag \in {0, 1} : \E choices \in [1..m -> AtomChoices] :
          checked_adslab = CheckedAdslab(slab_tag, choices)
    /\ config_reasonable = "None"
    /\ bulk_symmetry = ""
    /\ max_miller = 0
    /\ millers_left = << >>
    /\ all_slabs_info = NoSlabs
    /\ SamplerIdle

NextConfig == IsConfigReasonable

SpecConfig == InitConfig /\ [][NextConfig]_vars

\* some adsorbate atom (tag 2) has a fractional coordinate below 0 or above 1,
\* or is strictly closer than 0.8 * (sum of covalent radii) / 100 Angstrom to
\* a Voronoi neighbour that is a slab atom (distances in milli-Angstrom)
SomeAtomMisplaced(a) ==
    \E i \in 1..Len(a.atoms) :
        /\ a.atoms[i].tag = 2
        /\ \/ \E c \in 1..3 : a.atoms[i].frac[c] < 0 \/ a.atoms[i].frac[c] > 100
           \/ \E k \in 1..Len(a.nn[i]) :
                 LET j == a.nn[i][k]
                 IN  /\ a.atoms[j].tag # 2
                     /\ 10 * 100 * a.dist[i][j] <
                            8 * 1000 * (COVALENT_RADIUS(a.atoms[i].elem)
                                        + COVALENT_RADIUS(a.atoms[j].elem))

IsConfigReasonableReturned == entry = "is_config_reasonable" /\ pc = "done"

\* C2: is_config_reasonable returns False if and only if some adsorbate atom
\* (tag 2) has a fractional coordinate below 0 or above 1 in the slab cell or
\* lies strictly closer than 0.8 * (sum of the two covalent radii) / 100 to
\* one of its Voronoi neighbours that is a slab atom; in every other case, a
\* distance equal to the threshold and an adslab with no tag-2 atom included,
\* it returns True.
C2_UnreasonableIffMisplaced ==
    IsConfigReasonableReturned =>
        /\ config_reasonable \in {"True", "False"}
        /\ config_reasonable = "False" <=> SomeAtomMisplaced(checked_adslab)

\* an O atom on the cell boundary, exactly 0.8 * (66 + 132) / 100 = 1.584
\* Angstrom from its Cu neighbour, is accepted
C2_Witness ==
    /\ IsConfigReasonableReturned
    /\ config_reasonable = "True"
    /\ Len(checked_adslab.atoms) = 2
    /\ checked_adslab.atoms[2].elem = "O"
    /\ checked_adslab.atoms[2].frac = <<0, 100, 50>>
    /\ checked_adslab.nn[2] = <<1, 2>>
    /\ checked_adslab.dist[2][1] = 1584

(***************************************************************************)
(* enumerate_surfaces (adsorptions.py 237-282).                            *)
(***************************************************************************)
MAX_MILLER == 2        \* MAX_MILLER of ocdata.constants
MaxMillerArg == 2     \* the caller's max_miller is drawn from 1..MaxMillerArg

RECURSIVE Gcd(_, _)
Gcd(a, b) == IF b = 0 THEN Abs(a) ELSE Gcd(b, a % Abs(b))

\* itertools.product(r, r, r), r = max_index, ..., -max_index, all zero left out
MillerCandidates(max_index) ==
    LET w == 2 * max_index + 1
        r(i) == max_index - i
        all == [n \in 1..(w * w * w) |->
                   <<r((n - 1) \div (w * w)), r(((n - 1) \div w) % w), r((n - 1) % w)>>]
    IN  SelectSeq(all, LAMBDA hkl : hkl # <<0, 0, 0>>)

\* the Miller index divided by the gcd of its components
Reduced(hkl) ==
    LET d == Gcd(Gcd(hkl[1], hkl[2]), hkl[3])
    IN  [c \in 1..3 |-> hkl[c] \div d]

\* two Miller indices related by a symmetry operation of the bulk
Equivalent(symmetry, a, b) ==
    LET perms == IF symmetry = "cubic"
                 THEN {<<1, 2, 3>>, <<1, 3, 2>>, <<2, 1, 3>>, <<2, 3, 1>>, <<3, 1, 2>>, <<3, 2, 1>>}
                 ELSE {<<1, 2, 3>>, <<2, 1, 3>>}
    IN  \E p \in perms : \A c \in 1..3 : Abs(a[c]) = Abs(b[p[c]])

\* pymatgen's get_symmetrically_distinct_miller_indices(structure, max_index):
\* the candidates are reduced and visited in order, and one is kept unless an
\* equivalent one was visited before it
get_symmetrically_distinct_miller_indices(symmetry, max_index) ==
    LET candidates == MillerCandidates(max_index)
        reduced == [k \in 1..Len(candidates) |-> Reduced(candidates[k])]
        kept == SelectSeq([k \in 1..Len(candidates) |-> k],
                          LAMBDA k : \A j \in 1..(k - 1) :
                                        ~Equivalent(symmetry, reduced[j], reduced[k]))
    IN  [u \in 1..Len(kept) |-> reduced[kept[u]]]

\* line 260: the Miller indices the loop runs over
EnumeratedMillers(symmetry, max_miller_arg) ==
    get_symmetrically_distinct_miller_indices(symmetry, MAX_MILLER)

\* lines 276-281 for one Miller index with one slab: the slab, and the
\* flipped slab when the slab is not invertible
SlabsInfo(millers, k, invertible) ==
    LET shift == Shifts[((k - 1) % Len(Shifts)) + 1]
    IN  <<[millers |-> millers, shift |-> shift, top |-> TRUE]>>
        \o (IF invertible THEN << >>
            ELSE <<[millers |-> millers, shift |-> shift, top |-> FALSE]>>)

\* lines 257-260: the bulk is standardized and the loop over the Miller
\* indices begins
EnumerateSurfacesBegin ==
    /\ pc = "enumerate_surfaces"
    /\ millers_left' = EnumeratedMillers(bulk_symmetry, max_miller)
    /\ all_slabs_info' = << >>
    /\ pc' = "enumerate_surfaces.for"
    /\ stages' = Append(stages, pc)
    /\ UNCHANGED <<entry, configVars, bulk_symmetry, max_miller>>
    /\ UNCHANGED <<raised, n_cat_elems_weights, n_elems, elem_sampling_str, inv_index,
                   bulk, surface, adsorbate, adsorbed_surfaces, adsorbed_surface,
                   adsorbed_surface_sampling_str, constrained, sites, result>>

\* lines 260-281: one pass of the loop; whether the slab is invertible is
\* SpacegroupAnalyzer's answer
EnumerateSurfacesFor ==
    /\ pc = "enumerate_surfaces.for"
    /\ millers_left # << >>
    /\ \E invertible \in BOOLEAN :
          all_slabs_info' = all_slabs_info
              \o SlabsInfo(Head(millers_left), Len(millers_left), invertible)
    /\ millers_left' = Tail(millers_left)
    /\ UNCHANGED <<entry, pc, stages, configVars, bulk_symmetry, max_miller>>
    /\ UNCHANGED <<raised, n_cat_elems_weights, n_elems, elem_sampling_str, inv_index,
                   bulk, surface, adsorbate, adsorbed_surfaces, adsorbed_surface,
                   adsorbed_surface_sampling_str, constrained, sites, result>>

\* line 282
EnumerateSurfacesReturn ==
    /\ pc = "enumerate_surfaces.for"
    /\ millers_left = << >>
    /\ pc' = "done"
    /\ UNCHANGED <<entry, stages, configVars, enumVars>>
    /\ UNCHANGED <<raised, n_cat_elems_weights, n_elems, elem_sampling_str, inv_index,
                   bulk, surface, adsorbate, adsorbed_surfaces, adsorbed_surface,
                   adsorbed_surface_sampling_str, constrained, sites, result>>

InitEnum ==
    /\ entry = "enumerate_surfaces"
    /\ pc = "enumerate_surfaces"
    /\ bulk_symmetry \in {"cubic", "tetragonal"}
    /\ max_miller \in 1..MaxMillerArg
    /\ millers_left = << >>
    /\ all_slabs_info = NoSlabs
    /\ checked_adslab = NoAdslab
    /\ config_reasonable = "None"
    /\ SamplerIdle

NextEnum ==
    \/ EnumerateSurfacesBegin
    \/ EnumerateSurfacesFor
    \/ EnumerateSurfacesReturn

SpecEnum == InitEnum /\ [][NextEnum]_vars

EnumerateSurfacesReturned == entry = "enumerate_surfaces" /\ pc = "done"

\* C9: enumerate_surfaces(bulk_atoms, max_miller) enumerates no surface whose
\* Miller indices are above the max_miller argument passed by the caller.
C9_NoMillerAboveMaxMiller ==
    EnumerateSurfacesReturned =>
        \A k \in 1..Len(all_slabs_info) :
            \A c \in 1..3 : Abs(all_slabs_info[k].millers[c]) <= max_miller

====
